---- MODULE Spec2Model ----
(***************************************************************************)
(* node-tree-sitter-compiler, src/compile.cc: the conversion of a          *)
(* JavaScript grammar object into tree_sitter rules (RuleFromJsRule), the  *)
(* assembly of a Grammar (GrammarFromJsGrammar) and the Compile method.    *)
(*                                                                         *)
(* JavaScript values are tagged tuples.  A JavaScript string is the list   *)
(* of its NUL-free segments: <<"a", "b">> is the string "a\0b", and so is  *)
(* a C++ std::string.  A C string ends at its first NUL: it is one segment.*)
(***************************************************************************)
EXTENDS Integers, Sequences, FiniteSets, TLC

VARIABLES
  js_grammar,         \* args[0] of Compile
  pc,                 \* the place the call has reached
  name,               \* Compile's std::string name
  i,                  \* the index of the running loop
  rules,              \* GrammarFromJsGrammar's vector of (rule_name, rule)
  ubiquitous_tokens,  \* GrammarFromJsGrammar's vector of ubiquitous tokens
  grammarResult,      \* the pair GrammarFromJsGrammar returned
  compileCalls,       \* the (grammar, name) pairs tree_sitter::compile was given
  result,             \* the pair tree_sitter::compile returned
  thrown,             \* the errors NanThrowTypeError / NanThrowError were given
  retval,             \* the value NanReturnValue / NanReturnUndefined set
  js_rule,            \* the descriptor RuleFromJsRule was last given
  rule                \* what that call of RuleFromJsRule did

vars == <<js_grammar, pc, name, i, rules, ubiquitous_tokens, grammarResult,
          compileCalls, result, thrown, retval, js_rule, rule>>

\* ------------------------------------------------------------ bounds
\* Longest `members` array of a SEQ or CHOICE descriptor.
MaxMembers == 2
\* Largest number of own keys of the `rules` mapping.
MaxRules == 2
\* Longest `ubiquitous` array.
MaxUbiquitous == 2
\* Largest value Array::Length() yields when the handle is not an array.
MaxUBLength == 1

\* ------------------------------------------------------------ JavaScript values
Undefined == <<"undefined">>
JsNum(n) == <<"number", n>>
JsStr(segments) == <<"string", segments>>
JsText(s) == JsStr(<<s>>)
JsArr(elements) == <<"array", elements>>
\* An object is the list of its own properties <<key segments, value>> in
\* enumeration order.
JsObj(properties) == <<"object", properties>>

IsUndefined(v) == v[1] = "undefined"
IsString(v) == v[1] = "string"
IsArray(v) == v[1] = "array"
\* v8::Value::IsObject: arrays are objects.
IsObject(v) == v[1] \in {"object", "array"}

Digit(d) ==
  CASE d = 0 -> "0" [] d = 1 -> "1" [] d = 2 -> "2" [] d = 3 -> "3"
    [] d = 4 -> "4" [] d = 5 -> "5" [] d = 6 -> "6" [] d = 7 -> "7"
    [] d = 8 -> "8" [] d = 9 -> "9"

RECURSIVE NatToString(_)
NatToString(n) ==
  IF n < 10 THEN Digit(n) ELSE NatToString(n \div 10) \o Digit(n % 10)

\* Joins two segment lists with a NUL-free separator between them.
JoinSegments(a, sep, b) ==
  SubSeq(a, 1, Len(a) - 1) \o <<a[Len(a)] \o sep \o b[1]>> \o Tail(b)

\* String::Utf8Value(value): the value's JavaScript ToString, as segments.
RECURSIVE Utf8Value(_)
Utf8Value(v) ==
  CASE IsString(v) -> v[2]
    [] IsUndefined(v) -> <<"undefined">>
    [] v[1] = "number" ->
         <<IF v[2] < 0 THEN "-" \o NatToString(0 - v[2]) ELSE NatToString(v[2])>>
    [] v[1] = "object" -> <<"[object Object]">>
    [] IsArray(v) ->
         IF v[2] = <<>> THEN <<"">>
         ELSE LET first == IF IsUndefined(v[2][1]) THEN <<"">> ELSE Utf8Value(v[2][1])
              IN IF Len(v[2]) = 1 THEN first
                 ELSE JoinSegments(first, ",", Utf8Value(JsArr(Tail(v[2]))))

\* A string literal of the source.
Lit(s) == <<s>>
\* A std::string read as a C string (c_str(), or a char * buffer): it ends
\* at the first NUL.
CStr(segments) == <<segments[1]>>
\* std::string operator+.
Concat(a, b) == JoinSegments(a, "", b)

\* return std::string(*utf8_string): the buffer is read as a C string.
StringFromJsString(js_string) == CStr(Utf8Value(js_string))

\* object->Get(NanNew(key)): the own property named key, or undefined.  A
\* number has no own properties.
ObjectGet(object, key) ==
  IF object[1] = "object"
     /\ \E k \in 1..Len(object[2]) : object[2][k][1] = <<key>>
  THEN LET k == CHOOSE k \in 1..Len(object[2]) : object[2][k][1] = <<key>>
       IN object[2][k][2]
  ELSE Undefined

\* array->Get(i), i counted from 0 as in the source.
ArrayGet(array, idx) ==
  IF IsArray(array) /\ idx < Len(array[2]) THEN array[2][idx + 1] ELSE Undefined

\* js_members->Length().  The handle was cast to Array unchecked: on a value
\* that is no array the read yields whatever lies there, here ub.
ArrayLength(array, ub) == IF IsArray(array) THEN Len(array[2]) ELSE ub

\* value->IntegerValue(): ToInteger.  NaN becomes 0.  Strings of the model
\* are one decimal digit or not numeric.
IntegerValue(v) ==
  CASE v[1] = "number" -> v[2]
    [] IsString(v) ->
         IF Len(v[2]) = 1 /\ \E d \in 0..9 : Digit(d) = v[2][1]
         THEN CHOOSE d \in 0..9 : Digit(d) = v[2][1]
         ELSE 0
    [] OTHER -> 0

\* ------------------------------------------------------------ rules
\* rule_ptr(): the null pointer.
Null == <<"null">>
\* The rule builders of tree_sitter/compiler.h.
blank == <<"Blank">>
choice(members) == <<"Choice", members>>
seq(members) == <<"Seq", members>>
err(r) == <<"Error", r>>
repeat(r) == <<"Repeat", r>>
repeat1(r) == <<"Repeat1", r>>
token(r) == <<"Token", r>>
pattern(s) == <<"Pattern", s>>
str(s) == <<"String", s>>
sym(s) == <<"Symbol", s>>
prec(n, r) == <<"Prec", n, r>>
prec_left(n, r) == <<"PrecLeft", n, r>>
prec_right(n, r) == <<"PrecRight", n, r>>

\* ------------------------------------------------------------ errors
\* NanThrowTypeError(msg) and NanThrowError(msg) with a C string msg.
NanTypeError(msg) ==
  [kind |-> "TypeError", message |-> CStr(msg), isGrammarError |-> FALSE]
NanPlainError(msg) ==
  [kind |-> "Error", message |-> CStr(msg), isGrammarError |-> FALSE]

\* What one call of RuleFromJsRule did: the pointer it returned, the errors it
\* threw in order, and the descriptors RuleFromJsRule was entered with, in order.
Built(node, errors, calls) == [node |-> node, thrown |-> errors, calls |-> calls]


\* The state of a members loop: whether it ran to the end, the vector so far.
Members(ok, members, errors, calls) ==
  [ok |-> ok, members |-> members, thrown |-> errors, calls |-> calls]

RECURSIVE RuleFromJsRule(_, _)
RECURSIVE MembersLoop(_, _, _, _, _)

\* for (uint32_t i = 0; i < length; i++) { ... } of the CHOICE and SEQ branches.
MembersLoop(js_members, idx, length, ub, acc) ==
  IF idx >= length THEN acc
  ELSE LET member == RuleFromJsRule(ArrayGet(js_members, idx), ub)
       IN IF member.node # Null
          THEN MembersLoop(js_members, idx + 1, length, ub,
                 Members(TRUE, Append(acc.members, member.node),
                         acc.thrown \o member.thrown, acc.calls \o member.calls))
          ELSE Members(FALSE, acc.members,
                       acc.thrown \o member.thrown, acc.calls \o member.calls)

\* The CHOICE and SEQ branches.
Composite(js_rule_, ub, type) ==
  LET js_members == ObjectGet(js_rule_, "members")
      length == ArrayLength(js_members, ub)
      loop == MembersLoop(js_members, 0, length, ub, Members(TRUE, <<>>, <<>>, <<>>))
  IN IF loop.ok
     THEN Built(IF type = Lit("CHOICE") THEN choice(loop.members) ELSE seq(loop.members),
                loop.thrown, <<js_rule_>> \o loop.calls)
     ELSE Built(Null, loop.thrown, <<js_rule_>> \o loop.calls)

\* return wrap(RuleFromJsRule(ObjectGet<Object>(js_rule, "value"))): the
\* ERROR, REPEAT and REPEAT1 branches wrap whatever the call returned.
Wrapped(js_rule_, ub, type) ==
  LET value == RuleFromJsRule(ObjectGet(js_rule_, "value"), ub)
  IN Built(CASE type = Lit("ERROR") -> err(value.node)
             [] type = Lit("REPEAT") -> repeat(value.node)
             [] type = Lit("REPEAT1") -> repeat1(value.node),
           value.thrown, <<js_rule_>> \o value.calls)

\* The TOKEN branch tests the pointer before it wraps it.
TokenBranch(js_rule_, ub) ==
  LET value == RuleFromJsRule(ObjectGet(js_rule_, "value"), ub)
  IN IF value.node # Null
     THEN Built(token(value.node), value.thrown, <<js_rule_>> \o value.calls)
     ELSE Built(Null, value.thrown, <<js_rule_>> \o value.calls)

\* The PREC, PREC_LEFT and PREC_RIGHT branches.
Precedence(js_rule_, ub, type) ==
  LET child == RuleFromJsRule(ObjectGet(js_rule_, "rule"), ub)
  IN IF child.node # Null
     THEN LET value == IntegerValue(ObjectGet(js_rule_, "value"))
          IN Built(CASE type = Lit("PREC") -> prec(value, child.node)
                     [] type = Lit("PREC_LEFT") -> prec_left(value, child.node)
                     [] type = Lit("PREC_RIGHT") -> prec_right(value, child.node),
                   child.thrown, <<js_rule_>> \o child.calls)
     ELSE Built(Null, child.thrown, <<js_rule_>> \o child.calls)

RuleFromJsRule(js_rule_, ub) ==
  IF ~IsObject(js_rule_)
  THEN Built(Null, <<NanTypeError(Lit("Expected rule to be an object"))>>, <<js_rule_>>)
  ELSE
  LET js_type == ObjectGet(js_rule_, "type") IN
  IF ~IsString(js_type)
  THEN Built(Null, <<NanTypeError(Lit("Expected rule type to be a string"))>>, <<js_rule_>>)
  ELSE
  LET type == StringFromJsString(js_type) IN
  CASE type = Lit("BLANK") -> Built(blank, <<>>, <<js_rule_>>)
    [] type = Lit("CHOICE") -> Composite(js_rule_, ub, type)
    [] type = Lit("ERROR") -> Wrapped(js_rule_, ub, type)
    [] type = Lit("PATTERN") ->
         Built(pattern(StringFromJsString(ObjectGet(js_rule_, "value"))), <<>>, <<js_rule_>>)
    [] type = Lit("REPEAT") -> Wrapped(js_rule_, ub, type)
    [] type = Lit("REPEAT1") -> Wrapped(js_rule_, ub, type)
    [] type = Lit("SEQ") -> Composite(js_rule_, ub, type)
    [] type = Lit("STRING") ->
         Built(str(StringFromJsString(ObjectGet(js_rule_, "value"))), <<>>, <<js_rule_>>)
    [] type = Lit("PREC") -> Precedence(js_rule_, ub, type)
    [] type = Lit("PREC_LEFT") -> Precedence(js_rule_, ub, type)
    [] type = Lit("PREC_RIGHT") -> Precedence(js_rule_, ub, type)
    [] type = Lit("TOKEN") -> TokenBranch(js_rule_, ub)
    [] type = Lit("SYMBOL") ->
         Built(sym(StringFromJsString(ObjectGet(js_rule_, "name"))), <<>>, <<js_rule_>>)
    [] OTHER ->
         Built(Null, <<NanPlainError(Concat(Lit("Unexpected rule type: "), type))>>, <<js_rule_>>)


\* ------------------------------------------------------------ inputs
Prop(key, value) == <<<<key>>, value>>
\* A property, or none when the field is absent (Get then yields undefined).
Field(key, value) == IF IsUndefined(value) THEN <<>> ELSE <<Prop(key, value)>>
\* A descriptor { type: <segments>, ...properties }.
Typed(segments, properties) == JsObj(<<<<<<"type">>, JsStr(segments)>>>> \o properties)

\* Arrays of at most n elements of pool.
Arrays(pool, n) == {JsArr(s) : s \in UNION {[1..k -> pool] : k \in 0..n}}

\* Texts: "foo", and "a\0b" with an embedded NUL.
Texts == {JsText("foo"), JsStr(<<"a", "b">>)}
\* What a text field may hold: a text, nothing, a number.
TextFields == Texts \cup {Undefined, JsNum(7)}
\* What a precedence `value` may hold: an integer, nothing, a text.
LevelFields == {JsNum(2), Undefined, JsText("x")}

WrapTags == {"ERROR", "REPEAT", "REPEAT1", "TOKEN"}
PrecTags == {"PREC", "PREC_LEFT", "PREC_RIGHT"}
CompositeTags == {"CHOICE", "SEQ"}
TextTags == {"STRING", "PATTERN"}
KnownTags ==
  {"BLANK", "SYMBOL"} \cup WrapTags \cup PrecTags \cup CompositeTags \cup TextTags

Blank == Typed(<<"BLANK">>, <<>>)
Foo == Typed(<<"FOO">>, <<>>)

\* Values that are no descriptor: not objects, or objects without a string type.
NonRules ==
  {Undefined, JsNum(1), JsArr(<<>>), JsObj(<<>>), JsObj(<<Prop("type", JsNum(1))>>)}
LeafRules ==
  {Blank}
  \cup {Typed(<<t>>, Field("value", v)) : t \in TextTags, v \in TextFields}
  \cup {Typed(<<"SYMBOL">>, Field("name", v)) : v \in TextFields}
\* Descriptors whose type is none of the 13 tags: "FOO", "FOO" with a field,
\* "FOO\0BAR", "BLANK\0x", "blank".
UnknownRules ==
  {Foo, Typed(<<"FOO">>, <<Prop("value", JsText("foo"))>>),
   Typed(<<"FOO", "BAR">>, <<>>), Typed(<<"BLANK", "x">>, <<>>),
   Typed(<<"blank">>, <<>>)}

Wrappers(pool) ==
  {Typed(<<t>>, Field("value", c)) : t \in WrapTags, c \in pool}
Precedences(pool) ==
  {Typed(<<t>>, Field("value", n) \o Field("rule", c)) :
     t \in PrecTags, n \in LevelFields, c \in pool}
Composites(pool) ==
  {Typed(<<t>>, Field("members", m)) :
     t \in CompositeTags, m \in Arrays(pool, MaxMembers) \cup {Undefined, JsNum(3)}}

\* The descriptors members and children are drawn from.
MemberPool ==
  {Blank, Typed(<<"STRING">>, <<Prop("value", JsText("foo"))>>), Foo, Undefined}

\* The descriptors RuleFromJsRule is checked on, up to three levels deep.
JsRules ==
  NonRules \cup LeafRules \cup UnknownRules
  \cup Wrappers(MemberPool) \cup Precedences(MemberPool)
  \cup Composites(MemberPool \cup Wrappers(MemberPool))
  \cup Wrappers(Composites(MemberPool)) \cup Precedences(Wrappers(MemberPool))

\* ------------------------------------------------------------ RuleFromJsRule alone
NoRule == Built(Null, <<>>, <<>>)
NoGrammar == [rules |-> <<>>, ubiquitous_tokens |-> <<>>]
NoResult == <<Lit(""), Null>>
NoValue == <<"none">>

Idle ==
  /\ js_grammar = Undefined
  /\ name = Lit("")
  /\ i = 0
  /\ rules = <<>>
  /\ ubiquitous_tokens = <<>>
  /\ grammarResult = <<NoGrammar, FALSE>>
  /\ compileCalls = <<>>
  /\ result = NoResult
  /\ thrown = <<>>
  /\ retval = NoValue

RuleInit ==
  /\ Idle
  /\ pc = "RuleFromJsRule"
  /\ js_rule \in JsRules
  /\ rule = NoRule

\* rule_ptr RuleFromJsRule(Handle<Object> js_rule), called once.
CallRuleFromJsRule ==
  /\ pc = "RuleFromJsRule"
  /\ \E ub \in 0..MaxUBLength : rule' = RuleFromJsRule(js_rule, ub)
  /\ thrown' = rule'.thrown
  /\ pc' = "returned"
  /\ UNCHANGED <<js_grammar, name, i, rules, ubiquitous_tokens, grammarResult,
                 compileCalls, result, retval, js_rule>>

RuleNext == CallRuleFromJsRule

RuleSpec == RuleInit /\ [][RuleNext]_vars


\* ------------------------------------------------------------ Compile: inputs
\* Rule names: "b", "a", and "a\0x" with an embedded NUL.
RuleKeys == {<<"b">>, <<"a">>, <<"a", "x">>}
\* The descriptors a grammar's rules and ubiquitous tokens are drawn from.
GrammarRulePool ==
  {Blank, Typed(<<"SYMBOL">>, <<Prop("name", JsText("foo"))>>), Foo,
   Typed(<<"REPEAT">>, <<Prop("value", Foo)>>)}
UbiquitousPool == {Blank, Foo, Typed(<<"TOKEN">>, <<Prop("value", Foo)>>)}

\* The lists of n different keys.
KeyLists(n) ==
  {ks \in [1..n -> RuleKeys] : \A a, b \in 1..n : a # b => ks[a] # ks[b]}
\* Mappings of at most MaxRules rules, a key never twice.
RuleMaps ==
  UNION {{JsObj([k \in 1..n |-> <<ks[k], ds[k]>>]) :
            ks \in KeyLists(n), ds \in [1..n -> GrammarRulePool]} : n \in 0..MaxRules}

NameFields == {JsText("g"), Undefined}
RulesFields == RuleMaps \cup {Undefined, JsArr(<<Blank>>)}
UbiquitousFields == Arrays(UbiquitousPool, MaxUbiquitous) \cup {Undefined, JsNum(4)}

\* args[0]: a grammar object, or a number.
Grammars ==
  {JsNum(0)}
  \cup {JsObj(Field("name", n) \o Field("rules", r) \o Field("ubiquitous", u)) :
          n \in NameFields, r \in RulesFields, u \in UbiquitousFields}

\* pair<string, const GrammarError *>: what tree_sitter::compile may return.
\* Its messages are composed from the NUL-free texts it was given.
GrammarError(message) == <<"GrammarError", message>>
CompilerOutcomes ==
  {<<Lit("artifact"), Null>>,
   <<Lit(""), GrammarError(Lit("Undefined rule"))>>,
   <<Lit("partial"), GrammarError(Lit("Conflict"))>>}

\* ------------------------------------------------------------ Compile
\* js_rules->GetOwnPropertyNames(): the own keys in enumeration order; an
\* array's are its indices.
GetOwnPropertyNames(object) ==
  IF IsArray(object)
  THEN [k \in 1..Len(object[2]) |-> Lit(NatToString(k - 1))]
  ELSE [k \in 1..Len(object[2]) |-> object[2][k][1]]

\* js_rules->Get(js_rule_name), the key a JavaScript string.
Get(object, key) ==
  IF IsArray(object)
  THEN object[2][CHOOSE k \in 1..Len(object[2]) : Lit(NatToString(k - 1)) = key]
  ELSE object[2][CHOOSE k \in 1..Len(object[2]) : object[2][k][1] = key][2]

\* Grammar(rules) with its ubiquitous_tokens.
Grammar(rules_, tokens) == [rules |-> rules_, ubiquitous_tokens |-> tokens]

Init ==
  /\ js_grammar \in Grammars
  /\ pc = "Compile"
  /\ name = Lit("")
  /\ i = 0
  /\ rules = <<>>
  /\ ubiquitous_tokens = <<>>
  /\ grammarResult = <<NoGrammar, FALSE>>
  /\ compileCalls = <<>>
  /\ result = NoResult
  /\ thrown = <<>>
  /\ retval = NoValue
  /\ js_rule = Undefined
  /\ rule = NoRule

\* Compile, lines 174-182: the two checks throw and go on.
CompileEntry ==
  /\ pc = "Compile"
  /\ LET js_name == ObjectGet(js_grammar, "name")
     IN /\ thrown' =
             thrown
             \o (IF ~IsObject(js_grammar)
                 THEN <<NanTypeError(Lit("Expected grammar to be an object"))>>
                 ELSE <<>>)
             \o (IF ~IsString(js_name)
                 THEN <<NanTypeError(Lit("Expected grammar name to be a string"))>>
                 ELSE <<>>)
        /\ name' = StringFromJsString(js_name)
  /\ pc' = "GrammarFromJsGrammar"
  /\ UNCHANGED <<js_grammar, i, rules, ubiquitous_tokens, grammarResult,
                 compileCalls, result, retval, js_rule, rule>>

\* GrammarFromJsGrammar, lines 131-139.
GrammarRules ==
  /\ pc = "GrammarFromJsGrammar"
  /\ IF ~IsObject(ObjectGet(js_grammar, "rules"))
     THEN /\ thrown' = Append(thrown, NanTypeError(Lit("Expected rules to be an object")))
          /\ grammarResult' = <<Grammar(<<>>, <<>>), FALSE>>
          /\ pc' = "grammarResult"
     ELSE /\ pc' = "rules"
          /\ UNCHANGED <<thrown, grammarResult>>
  /\ rules' = <<>>
  /\ i' = 0
  /\ UNCHANGED <<js_grammar, name, ubiquitous_tokens, compileCalls, result, retval,
                 js_rule, rule>>

\* One turn of the loop of lines 140-149.
RulesLoop ==
  /\ pc = "rules"
  /\ LET js_rules == ObjectGet(js_grammar, "rules")
         rule_names == GetOwnPropertyNames(js_rules)
     IN /\ i < Len(rule_names)
        /\ LET js_rule_name == rule_names[i + 1]
               rule_name == StringFromJsString(JsStr(js_rule_name))
           IN /\ js_rule' = Get(js_rules, js_rule_name)
              /\ \E ub \in 0..MaxUBLength : rule' = RuleFromJsRule(js_rule', ub)
              /\ thrown' = thrown \o rule'.thrown
              /\ IF rule'.node # Null
                 THEN /\ rules' = Append(rules, <<rule_name, rule'.node>>)
                      /\ i' = i + 1
                      /\ UNCHANGED <<pc, grammarResult>>
                 ELSE /\ grammarResult' = <<Grammar(<<>>, <<>>), FALSE>>
                      /\ pc' = "grammarResult"
                      /\ UNCHANGED <<rules, i>>
  /\ UNCHANGED <<js_grammar, name, ubiquitous_tokens, compileCalls, result, retval>>

\* Lines 151-161, after the loop: the Grammar is made and `ubiquitous` read.
GrammarUbiquitous ==
  /\ pc = "rules"
  /\ i >= Len(GetOwnPropertyNames(ObjectGet(js_grammar, "rules")))
  /\ LET js_ubiquitous_tokens == ObjectGet(js_grammar, "ubiquitous")
     IN IF ~IsUndefined(js_ubiquitous_tokens)
        THEN IF ~IsArray(js_ubiquitous_tokens)
             THEN /\ thrown' = Append(thrown,
                      NanTypeError(Lit("Expected ubiquitous_tokens to be an array")))
                  /\ grammarResult' = <<Grammar(<<>>, <<>>), FALSE>>
                  /\ pc' = "grammarResult"
             ELSE /\ pc' = "ubiquitous"
                  /\ UNCHANGED <<thrown, grammarResult>>
        ELSE /\ grammarResult' = <<Grammar(rules, <<>>), TRUE>>
             /\ pc' = "grammarResult"
             /\ UNCHANGED thrown
  /\ ubiquitous_tokens' = <<>>
  /\ i' = 0
  /\ UNCHANGED <<js_grammar, name, rules, compileCalls, result, retval, js_rule, rule>>

\* One turn of the loop of lines 162-163: the pointer is pushed as returned.
UbiquitousLoop ==
  /\ pc = "ubiquitous"
  /\ LET js_ubiquitous_tokens == ObjectGet(js_grammar, "ubiquitous")
     IN /\ i < Len(js_ubiquitous_tokens[2])
        /\ js_rule' = ArrayGet(js_ubiquitous_tokens, i)
  /\ \E ub \in 0..MaxUBLength : rule' = RuleFromJsRule(js_rule', ub)
  /\ thrown' = thrown \o rule'.thrown
  /\ ubiquitous_tokens' = Append(ubiquitous_tokens, rule'.node)
  /\ i' = i + 1
  /\ UNCHANGED <<js_grammar, pc, name, rules, grammarResult, compileCalls, result,
                 retval>>

\* Lines 165-168.
GrammarReturn ==
  /\ pc = "ubiquitous"
  /\ i >= Len(ObjectGet(js_grammar, "ubiquitous")[2])
  /\ grammarResult' = <<Grammar(rules, ubiquitous_tokens), TRUE>>
  /\ pc' = "grammarResult"
  /\ UNCHANGED <<js_grammar, name, i, rules, ubiquitous_tokens, compileCalls, result,
                 thrown, retval, js_rule, rule>>

\* Lines 185-186: if (!grammarResult.second) NanReturnUndefined().
ReturnUndefined ==
  /\ pc = "grammarResult"
  /\ ~grammarResult[2]
  /\ retval' = Undefined
  /\ pc' = "done"
  /\ UNCHANGED <<js_grammar, name, i, rules, ubiquitous_tokens, grammarResult,
                 compileCalls, result, thrown, js_rule, rule>>

\* InvokeCompiler without line 191: the error is thrown unflagged.
InvokeCompilerUnflagged ==
  /\ pc = "grammarResult"
  /\ grammarResult[2]
  /\ \E outcome \in CompilerOutcomes : result' = outcome
  /\ compileCalls' = Append(compileCalls, <<grammarResult[1], name>>)
  /\ thrown' =
       IF result'[2] # Null
       THEN Append(thrown, NanPlainError(result'[2][2]))
       ELSE thrown
  /\ pc' = "compiled"
  /\ UNCHANGED <<js_grammar, name, i, rules, ubiquitous_tokens, grammarResult, retval,
                 js_rule, rule>>

\* Lines 188-193: tree_sitter::compile is called; its error is thrown, flagged.
InvokeCompiler ==
  /\ pc = "grammarResult"
  /\ grammarResult[2]
  /\ \E outcome \in CompilerOutcomes : result' = outcome
  /\ compileCalls' = Append(compileCalls, <<grammarResult[1], name>>)
  /\ thrown' =
       IF result'[2] # Null
       THEN Append(thrown, [kind |-> "Error", message |-> CStr(result'[2][2]),
                            isGrammarError |-> TRUE])
       ELSE thrown
  /\ pc' = "compiled"
  /\ UNCHANGED <<js_grammar, name, i, rules, ubiquitous_tokens, grammarResult, retval,
                 js_rule, rule>>

\* Line 195: NanReturnValue(NanNew(result.first)).
ReturnValue ==
  /\ pc = "compiled"
  /\ retval' = JsStr(result[1])
  /\ pc' = "done"
  /\ UNCHANGED <<js_grammar, name, i, rules, ubiquitous_tokens, grammarResult,
                 compileCalls, result, thrown, js_rule, rule>>

Next ==
  \/ CompileEntry
  \/ GrammarRules
  \/ RulesLoop
  \/ GrammarUbiquitous
  \/ UbiquitousLoop
  \/ GrammarReturn
  \/ ReturnUndefined
  \/ InvokeCompiler
  \/ ReturnValue

Spec == Init /\ [][Next]_vars

\* What the JavaScript caller gets when the method returns: the exception
\* thrown last if one is pending, else the return value.
Completion ==
  IF thrown # <<>> THEN <<"throw", thrown[Len(thrown)]>> ELSE <<"return", retval>>

\* ------------------------------------------------------------ RuleFromJsRule: properties
\* The descriptor's tag: the whole text of its `type`, when it has one.
TagOf(d) ==
  IF IsObject(d) /\ IsString(ObjectGet(d, "type")) THEN ObjectGet(d, "type")[2] ELSE <<>>
HasTag(d, tags) == \E t \in tags : TagOf(d) = <<t>>
\* d cannot be built, whatever an unchecked length read yields.
BuildFails(d) == \A ub \in 0..MaxUBLength : RuleFromJsRule(d, ub).node = Null

\* C2: for a descriptor tagged ERROR, REPEAT, REPEAT1 or TOKEN, when the
\* descriptor in `value` cannot be built RuleFromJsRule returns no node, and a
\* node it returns never has a null child.
C2_SingleChildFailurePropagates ==
  (pc = "returned" /\ HasTag(js_rule, WrapTags)) =>
    /\ BuildFails(ObjectGet(js_rule, "value")) => rule.node = Null
    /\ rule.node # Null => rule.node[2] # Null

\* The required fields of the descriptor's tag are present and of the right kind.
FieldsOk(d) ==
  CASE HasTag(d, CompositeTags) -> IsArray(ObjectGet(d, "members"))
    [] HasTag(d, WrapTags) -> IsObject(ObjectGet(d, "value"))
    [] HasTag(d, TextTags) -> IsString(ObjectGet(d, "value"))
    [] HasTag(d, PrecTags) ->
         IsObject(ObjectGet(d, "rule")) /\ ObjectGet(d, "value")[1] = "number"
    [] HasTag(d, {"SYMBOL"}) -> IsString(ObjectGet(d, "name"))
    [] OTHER -> TRUE

\* C5: for a descriptor with a known tag whose required field is missing or of
\* the wrong kind, RuleFromJsRule throws an error and returns no node.
C5_MissingFieldIsShapeError ==
  (pc = "returned" /\ HasTag(js_rule, KnownTags) /\ ~FieldsOk(js_rule)) =>
    rule.node = Null /\ rule.thrown # <<>>

\* The members of a SEQ or CHOICE descriptor, and what building each one does
\* (no member of JsRules' composites reads a length unchecked).
MembersOf(d) == ObjectGet(d, "members")[2]
MemberBuild(d, k) == RuleFromJsRule(MembersOf(d)[k], 0)
\* The calls made for members 1..k, in order.
RECURSIVE MemberCalls(_, _)
MemberCalls(d, k) ==
  IF k = 0 THEN <<>> ELSE MemberCalls(d, k - 1) \o MemberBuild(d, k).calls
\* The first member whose build throws, or 0.
FirstThrowing(d) ==
  IF \E k \in 1..Len(MembersOf(d)) : MemberBuild(d, k).thrown # <<>>
  THEN CHOOSE k \in 1..Len(MembersOf(d)) :
         /\ MemberBuild(d, k).thrown # <<>>
         /\ \A j \in 1..(k - 1) : MemberBuild(d, j).thrown = <<>>
  ELSE 0

\* C6: for a SEQ or CHOICE descriptor, members are built in index order and,
\* once the build of a member throws, no node is returned, no later member is
\* built and that member's errors are the only ones thrown.
C6_CompositeEagerAbort ==
  (/\ pc = "returned"
   /\ HasTag(js_rule, CompositeTags)
   /\ IsArray(ObjectGet(js_rule, "members"))
   /\ FirstThrowing(js_rule) # 0) =>
    LET k == FirstThrowing(js_rule)
    IN /\ rule.node = Null
       /\ rule.calls = <<js_rule>> \o MemberCalls(js_rule, k)
       /\ rule.thrown = MemberBuild(js_rule, k).thrown

\* A descriptor with a known tag, fields of the right kind and well-formed
\* children.
RECURSIVE WellFormed(_)
WellFormed(d) ==
  /\ HasTag(d, KnownTags)
  /\ FieldsOk(d)
  /\ HasTag(d, CompositeTags) =>
       \A k \in 1..Len(MembersOf(d)) : WellFormed(MembersOf(d)[k])
  /\ HasTag(d, WrapTags) => WellFormed(ObjectGet(d, "value"))
  /\ HasTag(d, PrecTags) => WellFormed(ObjectGet(d, "rule"))

\* The node that corresponds to a well-formed descriptor.
RECURSIVE NodeOf(_)
NodeOf(d) ==
  LET tag == TagOf(d)[1]
      value == ObjectGet(d, "value")
      members == [k \in 1..Len(MembersOf(d)) |-> NodeOf(MembersOf(d)[k])]
  IN CASE tag = "BLANK" -> <<"Blank">>
       [] tag = "STRING" -> <<"String", value[2]>>
       [] tag = "PATTERN" -> <<"Pattern", value[2]>>
       [] tag = "SYMBOL" -> <<"Symbol", ObjectGet(d, "name")[2]>>
       [] tag = "SEQ" -> <<"Seq", members>>
       [] tag = "CHOICE" -> <<"Choice", members>>
       [] tag = "REPEAT" -> <<"Repeat", NodeOf(value)>>
       [] tag = "REPEAT1" -> <<"Repeat1", NodeOf(value)>>
       [] tag = "TOKEN" -> <<"Token", NodeOf(value)>>
       [] tag = "ERROR" -> <<"Error", NodeOf(value)>>
       [] tag = "PREC" -> <<"Prec", value[2], NodeOf(ObjectGet(d, "rule"))>>
       [] tag = "PREC_LEFT" -> <<"PrecLeft", value[2], NodeOf(ObjectGet(d, "rule"))>>
       [] tag = "PREC_RIGHT" -> <<"PrecRight", value[2], NodeOf(ObjectGet(d, "rule"))>>

\* C9: for a well-formed descriptor RuleFromJsRule throws nothing and returns
\* the corresponding node: the texts of STRING, PATTERN and SYMBOL whole, the
\* members of SEQ and CHOICE in order, the wrapped child, the level and child
\* of a precedence.
C9_WellFormedBuildsCorrespondingNode ==
  (pc = "returned" /\ WellFormed(js_rule)) =>
    rule.thrown = <<>> /\ rule.node = NodeOf(js_rule)

\* C10: for an object descriptor whose `type` is a string that is none of the
\* 13 tags, RuleFromJsRule returns no node, throws one error whose message is
\* "Unexpected rule type: " followed by that type, and reads no other field.
C10_UnknownTagIsError ==
  (/\ pc = "returned"
   /\ IsObject(js_rule)
   /\ IsString(ObjectGet(js_rule, "type"))
   /\ ~HasTag(js_rule, KnownTags)) =>
    /\ rule.node = Null
    /\ Len(rule.thrown) = 1
    /\ rule.thrown[1].message = Concat(Lit("Unexpected rule type: "), TagOf(js_rule))
    /\ rule.calls = <<js_rule>>


\* ------------------------------------------------------------ Compile: properties
\* The descriptors of the grammar's rules and ubiquitous tokens, in order.
RuleEntries ==
  LET js_rules == ObjectGet(js_grammar, "rules")
  IN IF IsObject(js_rules)
     THEN [k \in 1..Len(js_rules[2]) |-> Get(js_rules, GetOwnPropertyNames(js_rules)[k])]
     ELSE <<>>
UbiquitousEntries ==
  LET js_ubiquitous_tokens == ObjectGet(js_grammar, "ubiquitous")
  IN IF IsArray(js_ubiquitous_tokens) THEN js_ubiquitous_tokens[2] ELSE <<>>
Entries == RuleEntries \o UbiquitousEntries

\* A null pointer among the rules or the ubiquitous tokens of a Grammar.
GrammarHasNull(grammar) ==
  \/ \E k \in 1..Len(grammar.rules) : grammar.rules[k][2] = Null
  \/ \E k \in 1..Len(grammar.ubiquitous_tokens) : grammar.ubiquitous_tokens[k] = Null

\* C1: when RuleFromJsRule fails on an entry of `rules` or of `ubiquitous`,
\* GrammarFromJsGrammar returns false; a Grammar it returns with true, or that
\* tree_sitter::compile is given, holds no null rule.
C1_AssemblyAllOrNothing ==
  /\ pc \in {"grammarResult", "compiled", "done"} =>
       /\ (\E k \in 1..Len(Entries) : BuildFails(Entries[k])) => ~grammarResult[2]
       /\ grammarResult[2] => ~GrammarHasNull(grammarResult[1])
  /\ \A k \in 1..Len(compileCalls) : ~GrammarHasNull(compileCalls[k][1])

\* C3: in a call whose grammar `name` is absent or no string, the name error
\* is thrown and tree_sitter::compile is never called.
C3_NameValidationPrecedesCompilation ==
  ~IsString(ObjectGet(js_grammar, "name")) =>
    /\ compileCalls = <<>>
    /\ pc # "Compile" =>
         \E k \in 1..Len(thrown) :
           thrown[k].message = Lit("Expected grammar name to be a string")

\* C4: a call throws at most one error, and once an error is thrown nothing
\* more is checked, built, compiled or thrown.
C4_FailFastOneError ==
  [][/\ Len(thrown') <= 1
     /\ thrown # <<>> =>
          /\ thrown' = thrown
          /\ rule' = rule
          /\ rules' = rules
          /\ ubiquitous_tokens' = ubiquitous_tokens
          /\ compileCalls' = compileCalls]_vars

\* The grammar validates: it is an object with a string name, an object of
\* rules and an absent or array `ubiquitous`, and no entry's build throws.
Validates ==
  /\ IsObject(js_grammar)
  /\ IsString(ObjectGet(js_grammar, "name"))
  /\ IsObject(ObjectGet(js_grammar, "rules"))
  /\ LET js_ubiquitous_tokens == ObjectGet(js_grammar, "ubiquitous")
     IN IsUndefined(js_ubiquitous_tokens) \/ IsArray(js_ubiquitous_tokens)
  /\ \A k \in 1..Len(Entries) :
       \A ub \in 0..MaxUBLength : RuleFromJsRule(Entries[k], ub).thrown = <<>>

\* C7: when the grammar validated, a finished call has called
\* tree_sitter::compile exactly once, with the assembled Grammar and the name;
\* if the compiler reported no error the caller gets the artifact and nothing
\* was thrown; if it reported one, the only error thrown carries its message
\* and isGrammarError, and the caller gets that error and no value.
C7_CompilerOutcomeMapped ==
  (pc = "done" /\ Validates) =>
    /\ compileCalls = <<<<grammarResult[1], name>>>>
    /\ result[2] = Null =>
         thrown = <<>> /\ Completion = <<"return", JsStr(result[1])>>
    /\ result[2] # Null =>
         /\ thrown = <<[kind |-> "Error", message |-> result[2][2],
                        isGrammarError |-> TRUE]>>
         /\ Completion = <<"throw", thrown[1]>>

\* A validated grammar was compiled and the compiler reported an error.
C7_Witness ==
  /\ pc = "done"
  /\ Validates
  /\ Len(RuleEntries) = 2
  /\ result[2] # Null
  /\ retval # NoValue

\* C8: the assembled Grammar's rule list is the mapping's own keys in
\* enumeration order, each with the node built from its descriptor, one entry
\* per key; the ubiquitous tokens are the built entries of the list in order.
C8_DeclarationOrderPreserved ==
  (pc = "grammarResult" /\ grammarResult[2]) =>
    LET js_rules == ObjectGet(js_grammar, "rules")
    IN /\ grammarResult[1].rules =
            [k \in 1..Len(RuleEntries) |->
               <<GetOwnPropertyNames(js_rules)[k], RuleFromJsRule(RuleEntries[k], 0).node>>]
       /\ grammarResult[1].ubiquitous_tokens =
            [k \in 1..Len(UbiquitousEntries) |->
               RuleFromJsRule(UbiquitousEntries[k], 0).node]


\* ------------------------------------------------------------ what holds besides
\* No text of the value holds a NUL.
RECURSIVE NulFree(_)
NulFree(v) ==
  CASE IsString(v) -> Len(v[2]) = 1
    [] IsArray(v) -> \A k \in 1..Len(v[2]) : NulFree(v[2][k])
    [] v[1] = "object" ->
         \A k \in 1..Len(v[2]) : Len(v[2][k][1]) = 1 /\ NulFree(v[2][k][2])
    [] OTHER -> TRUE

\* Under RuleSpec: the TOKEN branch alone propagates a failed child.
TokenFailurePropagates ==
  HasTag(js_rule, {"TOKEN"}) => C2_SingleChildFailurePropagates
\* Under RuleSpec: composites without ERROR, REPEAT or REPEAT1 members abort eagerly.
TestedMembersAbortEagerly ==
  (/\ HasTag(js_rule, CompositeTags)
   /\ IsArray(ObjectGet(js_rule, "members"))
   /\ \A k \in 1..Len(MembersOf(js_rule)) :
        ~HasTag(MembersOf(js_rule)[k], {"ERROR", "REPEAT", "REPEAT1"})) =>
    C6_CompositeEagerAbort
\* Under RuleSpec: without NUL, well-formed descriptors build the corresponding
\* node and unknown types are reported by name.
NulFreeCorrespondence == NulFree(js_rule) => C9_WellFormedBuildsCorrespondingNode
NulFreeUnknownTag == NulFree(js_rule) => C10_UnknownTagIsError
\* Under Spec: without NUL, the rule list keeps the keys in enumeration order.
NulFreeDeclarationOrder == NulFree(js_grammar) => C8_DeclarationOrderPreserved

====
